---- MODULE Spec2Model ----
(***************************************************************************)
(* A model of mpq/__init__.py: the MPQFile archive set layered over the    *)
(* storm codec bindings.  Strings are sequences of one-character strings,  *)
(* so that str.split and str.replace are computed, not assumed.            *)
(***************************************************************************)
EXTENDS Integers, Sequences, FiniteSets, TLC

\* ------------------------------------------------------------------ bounds
\* Most archives one MPQFile holds.
MaxArchives == 2

\* Most bytes a read asks for by number, and the farthest a seek moves.
MaxRead == 2

\* ------------------------------------------------------------ Python values
\* Python's None, as a value no codec handle takes.
None == -1

\* bool(v) is False for None and for the integer 0.
Falsy(v) == v = None \/ v = 0

\* MPQFile.LISTFILE = "(listfile)"
LISTFILE == <<"(", "l", "i", "s", "t", "f", "i", "l", "e", ")">>

CRLF == <<"\r", "\n">>

\* from os import SEEK_SET, SEEK_CUR, SEEK_END
SEEK_SET == 0
SEEK_CUR == 1
SEEK_END == 2

\* ------------------------------------------------------------- str methods
\* The lowest index at which sep occurs in s, 0 when it does not occur.
find(s, sep) ==
    LET hits == {i \in 1..(Len(s) - Len(sep) + 1) :
                    SubSeq(s, i, i + Len(sep) - 1) = sep}
    IN IF hits = {} THEN 0 ELSE CHOOSE i \in hits : \A j \in hits : i <= j

\* s.split(sep): the pieces between the occurrences of sep, left to right,
\* empty pieces kept.
RECURSIVE split(_, _)
split(s, sep) ==
    LET i == find(s, sep)
    IN IF i = 0
       THEN <<s>>
       ELSE <<SubSeq(s, 1, i - 1)>> \o split(SubSeq(s, i + Len(sep), Len(s)), sep)

\* s.replace(old, new) for one-character old and new.
replace(s, old, new) == [i \in 1..Len(s) |-> IF s[i] = old THEN new ELSE s[i]]

\* [x for x in lf if x]: the non-empty strings of lf, in order.
RECURSIVE nonEmpty(_)
nonEmpty(lf) ==
    IF lf = <<>> THEN <<>>
    ELSE IF Head(lf) = <<>> THEN nonEmpty(Tail(lf))
    ELSE <<Head(lf)>> \o nonEmpty(Tail(lf))

\* A mutant of the listing clean-up: the filter "if x" is missing, empty
\* entries stay.
cleanListfile_keeps_empty(lf) ==
    [i \in 1..Len(lf) |-> replace(lf[i], "\\", "/")]

\* [x.replace("\\", "/") for x in lf if x]
cleanListfile(lf) ==
    LET kept == nonEmpty(lf)
    IN [i \in 1..Len(kept) |-> replace(kept[i], "\\", "/")]

\* The digit d of base 16 as "%x" writes it.
HexDigit(d) ==
    <<"0", "1", "2", "3", "4", "5", "6", "7",
      "8", "9", "a", "b", "c", "d", "e", "f">>[d + 1]

\* "%08x" % i for 0 <= i < 16^8: eight digits, zero-padded.
Hex8(i) == [k \in 1..8 |-> HexDigit((i \div (16 ^ (8 - k))) % 16)]

\* "File%08x.xxx" % i
IndexName(i) == <<"F", "i", "l", "e">> \o Hex8(i) \o <<".", "x", "x", "x">>

\* --------------------------------------------------- the archives on disk
\* Member names used by the archives and by the callers.
NameUX == <<"u", "\\", "x">>
NameV == <<"v">>
Names == {NameUX, NameV}

\* The physical archives the codec can open: their members other than the
\* listing file, and the listing file's bytes (hasList says whether the
\* archive has one).
Disk ==
    [p \in {"base.mpq", "patch.mpq", "empty.mpq", "nolist.mpq"} |->
        CASE p = "base.mpq" ->
               [files |-> {NameUX}, hasList |-> TRUE,
                listing |-> <<"u", "\\", "x", "\r", "\n">>]
          [] p = "patch.mpq" ->
               [files |-> {NameUX, NameV}, hasList |-> TRUE,
                listing |-> <<"u", "\\", "x", "\r", "\n", "\r", "\n", "v">>]
          [] p = "empty.mpq" ->
               [files |-> {}, hasList |-> TRUE,
                listing |-> <<"\r", "\n", "\r", "\n">>]
          [] OTHER ->
               [files |-> {NameV, IndexName(3)}, hasList |-> FALSE,
                listing |-> <<>>]]

GoodPaths == DOMAIN Disk
\* A path of no archive: openArchive fails on it.
BadPaths == {"missing.mpq"}
Paths == GoodPaths \cup BadPaths

\* The handle values the codec hands out.
Handles == 0..(MaxArchives - 1)

\* The integers open() is called with.
Indexes == {3}

PatchPaths == {"expansion.mpq"}
Prefixes == {"fix"}
Flags == {0}

VARIABLES
    _archives,    \* self._archives: the handles, in insertion order
    _listfile,    \* self._listfile: the cached name index
    hasListfile,  \* whether the attribute self._listfile exists
    name,         \* self.name
    storm,        \* the codec: handle -> [path, state, patches]; state is
                  \* "free", "open" or "closed", patches the set of patch
                  \* archives layered on the archive
    heap,         \* what a freed archive looks like to the codec in this
                  \* build: "intact" (it still answers) or "invalid"
    result,       \* the outcome of the last call on the MPQFile
    calls,        \* the codec calls the last call made, in order
    nlSeen        \* the values namelist() returned since the last add_archive
                  \* (the last two of them)

vars ==
    <<_archives, _listfile, hasListfile, name, storm, heap, result, calls, nlSeen>>

\* ------------------------------------------------------------- the codec
Ok(v) == [kind |-> "ok", val |-> v]
Raise(k) == [kind |-> k, val |-> None]

\* A handle the codec still answers for: an open archive, or a closed one
\* whose freed memory still looks like an archive.
Valid(st, h) ==
    /\ h \in Handles
    /\ st[h].state = "open" \/ (st[h].state = "closed" /\ heap = "intact")

IsClosed(st, h) == h \in Handles /\ st[h].state = "closed"

FreeHandle == [path |-> "", state |-> "free", patches |-> {}]

Members(p) == Disk[p].files \cup (IF Disk[p].hasList THEN {LISTFILE} ELSE {})

FileContent(p, n) == IF n = LISTFILE THEN Disk[p].listing ELSE n \o n

\* storm.SFileHasFile(mpq, name)
SFileHasFile(st, h, n) ==
    IF ~Valid(st, h) THEN Raise("StormError")
    ELSE Ok(n \in Members(st[h].path))

\* storm.SFileOpenFileEx(mpq, name, scope): a file handle at position 0.
SFileOpenFileEx(st, h, n, scope) ==
    IF ~Valid(st, h) \/ n \notin Members(st[h].path) THEN Raise("StormError")
    ELSE Ok([mpq |-> h, name |-> n, scope |-> scope, pos |-> 0,
             data |-> FileContent(st[h].path, n), state |-> "open"])

\* A file handle the codec still answers for: an open one, or a closed one
\* whose freed memory still looks like a file.
FileValid(f) == f.state = "open" \/ (f.state = "closed" /\ heap = "intact")

\* storm.SFileGetFileSize(file)
SFileGetFileSize(f) == Len(f.data)

\* storm.SFileSetFilePointer(file, 0, SEEK_CUR)
SFileTell(f) == f.pos

\* storm.SFileSetFilePointer(file, offset, whence): the new position, or an
\* error for a position outside the file.
SFileSetFilePointer(f, offset, whence) ==
    LET to == CASE whence = SEEK_SET -> offset
                [] whence = SEEK_CUR -> f.pos + offset
                [] OTHER -> Len(f.data) + offset
    IN IF ~FileValid(f) \/ to < 0 \/ to > Len(f.data) THEN Raise("StormError")
       ELSE Ok(to)

\* storm.SFileReadFile(file, size): the bytes read.
SFileReadFile(f, size) ==
    LET last == IF f.pos + size > Len(f.data) THEN Len(f.data) ELSE f.pos + size
    IN SubSeq(f.data, f.pos + 1, last)

\* ------------------------------------------------------------ MPQExtFile
MPQExtFile(file, n) == [_file |-> file, name |-> n]

\* A mutant of the read size: the position is not subtracted.
readSize_whole_file(f, size) ==
    IF size = None THEN SFileGetFileSize(f._file) ELSE size

\* MPQExtFile.read, lines 170-171: the number of bytes asked of the codec.
readSize(f, size) ==
    IF size = None
    THEN SFileGetFileSize(f._file) - SFileTell(f._file)
    ELSE size

\* MPQExtFile.read(size=None): the bytes returned.
ExtRead(f, size) == SFileReadFile(f._file, readSize(f, size))

\* --------------------------------------------------------------- MPQFile
\* The arguments of a call, each kind in a field of its own: a member name,
\* a path, a patch prefix and a number (the scope or the flags).
Args(n, path, prefix, num) ==
    [name |-> n, path |-> path, prefix |-> prefix, num |-> num]

NoArgs == Args(<<>>, "", "", 0)

\* A call into the codec on the archive handle h.
Call(fn, h, args) == [fn |-> fn, mpq |-> h, args |-> args]

\* The file of a call that returned none.
NoFile ==
    MPQExtFile([mpq |-> None, name |-> <<>>, scope |-> 0, pos |-> 0,
                data |-> <<>>, state |-> "none"], <<>>)

\* MPQFile.__contains__: [kind, val, calls]
RECURSIVE containsFrom(_, _, _, _)
containsFrom(i, n, st, cs) ==
    IF i > Len(_archives) THEN [kind |-> "ok", val |-> FALSE, calls |-> cs]
    ELSE LET mpq == _archives[i]
             r == SFileHasFile(st, mpq, n)
             cs1 == Append(cs, Call("SFileHasFile", mpq, Args(n, "", "", 0)))
         IN IF r.kind # "ok" THEN [kind |-> r.kind, val |-> FALSE, calls |-> cs1]
            ELSE IF r.val THEN [kind |-> "ok", val |-> TRUE, calls |-> cs1]
            ELSE containsFrom(i + 1, n, st, cs1)

\* A mutant of __contains__: only the first archive is asked.
contains_first_only(n) ==
    IF _archives = <<>> THEN [kind |-> "ok", val |-> FALSE, calls |-> <<>>]
    ELSE LET r == SFileHasFile(storm, _archives[1], n)
             cs1 == <<Call("SFileHasFile", _archives[1], Args(n, "", "", 0))>>
         IN [kind |-> r.kind, val |-> r.kind = "ok" /\ r.val, calls |-> cs1]

__contains__(n) == containsFrom(1, n, storm, <<>>)

\* MPQFile._archive_contains: the handle, or None when the loop ends.
RECURSIVE archiveContainsFrom(_, _, _, _)
archiveContainsFrom(i, n, st, cs) ==
    IF i > Len(_archives) THEN [kind |-> "ok", val |-> None, calls |-> cs]
    ELSE LET mpq == _archives[i]
             r == SFileHasFile(st, mpq, n)
             cs1 == Append(cs, Call("SFileHasFile", mpq, Args(n, "", "", 0)))
         IN IF r.kind # "ok" THEN [kind |-> r.kind, val |-> None, calls |-> cs1]
            ELSE IF r.val THEN [kind |-> "ok", val |-> mpq, calls |-> cs1]
            ELSE archiveContainsFrom(i + 1, n, st, cs1)

\* A mutant of _archive_contains: the loop does not stop at the first match,
\* so the last archive holding the name is returned.
RECURSIVE archiveContainsLastFrom(_, _, _, _, _)
archiveContainsLastFrom(i, n, st, cs, found) ==
    IF i > Len(_archives) THEN [kind |-> "ok", val |-> found, calls |-> cs]
    ELSE LET mpq == _archives[i]
             r == SFileHasFile(st, mpq, n)
             cs1 == Append(cs, Call("SFileHasFile", mpq, Args(n, "", "", 0)))
         IN IF r.kind # "ok" THEN [kind |-> r.kind, val |-> None, calls |-> cs1]
            ELSE archiveContainsLastFrom(i + 1, n, st, cs1,
                                         IF r.val THEN mpq ELSE found)

archive_contains_last(n) == archiveContainsLastFrom(1, n, storm, <<>>, None)

_archive_contains(n) == archiveContainsFrom(1, n, storm, <<>>)

\* The names bound at module level in mpq/__init__.py.
ModuleGlobals ==
    {"os", "storm", "SEEK_SET", "SEEK_CUR", "SEEK_END",
     "MPQFile", "MPQExtFile", "MPQInfo"}

\* Whether evaluating the bare identifier id raises NameError in a function
\* with the given local names.
Unbound(id, locals) == id \notin (locals \cup ModuleGlobals)

\* MPQFile._regenerate_listfile, from archive i on: acc is self._listfile so
\* far.  A failing open leaves self._listfile as it is at that point.
RECURSIVE regenFrom(_, _, _, _)
regenFrom(i, st, acc, cs) ==
    IF i > Len(_archives) THEN [kind |-> "ok", listfile |-> acc, calls |-> cs]
    ELSE LET mpq == _archives[i]
             o == SFileOpenFileEx(st, mpq, LISTFILE, 0)
             cs1 == Append(cs, Call("SFileOpenFileEx", mpq,
                                    Args(LISTFILE, "", "", 0)))
         IN IF o.kind # "ok"
            THEN [kind |-> o.kind, listfile |-> acc, calls |-> cs1]
            ELSE LET f == MPQExtFile(o.val, LISTFILE)
                     lf == split(ExtRead(f, None), CRLF)
                 IN regenFrom(i + 1, st, acc \o cleanListfile(lf), cs1)

_regenerate_listfile == regenFrom(1, storm, <<>>, <<>>)

\* A mutant of namelist: the list is fetched before the rebuild rebinds
\* self._listfile, so a rebuilding call returns the old, empty list.
namelist_returns_old ==
    IF ~hasListfile
    THEN [kind |-> "AttributeError", val |-> <<>>, listfile |-> _listfile,
          calls |-> <<>>, regen |-> FALSE]
    ELSE IF _listfile = <<>>
    THEN LET r == _regenerate_listfile
         IN [kind |-> r.kind, val |-> <<>>,
             listfile |-> r.listfile, calls |-> r.calls, regen |-> TRUE]
    ELSE [kind |-> "ok", val |-> _listfile, listfile |-> _listfile,
          calls |-> <<>>, regen |-> FALSE]

\* MPQFile.namelist: [kind, val, listfile (self._listfile afterwards), calls,
\* regen (whether the index was rebuilt)]
namelist ==
    IF ~hasListfile
    THEN [kind |-> "AttributeError", val |-> <<>>, listfile |-> _listfile,
          calls |-> <<>>, regen |-> FALSE]
    ELSE IF _listfile = <<>>
    THEN LET r == _regenerate_listfile
         IN [kind |-> r.kind, val |-> IF r.kind = "ok" THEN r.listfile ELSE <<>>,
             listfile |-> r.listfile, calls |-> r.calls, regen |-> TRUE]
    ELSE [kind |-> "ok", val |-> _listfile, listfile |-> _listfile,
          calls |-> <<>>, regen |-> FALSE]

\* MPQFile.open(name, patched=patched), name a string: [kind, val, calls]
open(n, patched) ==
    LET scope == IF patched THEN 1 ELSE 0
        r == _archive_contains(n)
    IN IF r.kind # "ok" THEN [kind |-> r.kind, val |-> NoFile, calls |-> r.calls]
       ELSE IF Falsy(r.val)
       THEN [kind |-> "KeyError", val |-> NoFile, calls |-> r.calls]
       ELSE LET o == SFileOpenFileEx(storm, r.val, n, scope)
                cs1 == Append(r.calls, Call("SFileOpenFileEx", r.val,
                                            Args(n, "", "", scope)))
            IN IF o.kind # "ok"
               THEN [kind |-> o.kind, val |-> NoFile, calls |-> cs1]
               ELSE [kind |-> "ok", val |-> MPQExtFile(o.val, n), calls |-> cs1]

\* Python values by their type: an int, and the builtin type int itself.
PyInt(i) == [type |-> "int", val |-> i]
IntType == [type |-> "type", val |-> 0]

\* "File%08x.xxx" % operand: %x takes a number and nothing else.
FormatIndexName(operand) ==
    IF operand.type = "int" THEN [kind |-> "ok", val |-> IndexName(operand.val)]
    ELSE [kind |-> "TypeError", val |-> <<>>]

\* MPQFile.open(i) for an int i: line 105 formats the name from the
\* operand (int), the builtin type, not from i.
open_index(i, patched) ==
    LET f == FormatIndexName(IntType)
    IN IF f.kind # "ok" THEN [kind |-> f.kind, val |-> NoFile, calls |-> <<>>]
       ELSE open(f.val, patched)

\* MPQFile.extract(member, path, patched): line 128 evaluates the identifier
\* name, which is bound neither in extract nor in the module.
extract(member, path, patched) ==
    LET scope == IF patched THEN 1 ELSE 0
    IN IF Unbound("name", {"self", "member", "path", "patched", "scope", "mpq"})
       THEN [kind |-> "NameError", calls |-> <<>>]
       ELSE LET r == _archive_contains(member)
            IN IF r.kind # "ok" THEN [kind |-> r.kind, calls |-> r.calls]
               ELSE IF Falsy(r.val) THEN [kind |-> "KeyError", calls |-> r.calls]
               ELSE [kind |-> "ok",
                     calls |-> Append(r.calls,
                         Call("SFileExtractFile", r.val,
                              Args(member, path, "", scope)))]

\* storm.SFileIsPatchedArchive(mpq)
SFileIsPatchedArchive(st, h) ==
    IF ~Valid(st, h) THEN Raise("StormError") ELSE Ok(st[h].patches # {})

\* MPQFile.is_patched: the loop body evaluates the identifier name, which is
\* bound neither in is_patched nor in the module.
RECURSIVE isPatchedFrom(_, _)
isPatchedFrom(i, cs) ==
    IF i > Len(_archives) THEN [kind |-> "ok", val |-> FALSE, calls |-> cs]
    ELSE IF Unbound("name", {"self", "mpq"})
    THEN [kind |-> "NameError", val |-> FALSE, calls |-> cs]
    ELSE LET mpq == _archives[i]
             r == SFileIsPatchedArchive(storm, mpq)
             cs1 == Append(cs, Call("SFileIsPatchedArchive", mpq, NoArgs))
         IN IF r.kind # "ok" THEN [kind |-> r.kind, val |-> FALSE, calls |-> cs1]
            ELSE IF r.val THEN [kind |-> "ok", val |-> TRUE, calls |-> cs1]
            ELSE isPatchedFrom(i + 1, cs1)

is_patched == isPatchedFrom(1, <<>>)

\* MPQFile.patch, over the archives arcs from index i on: [kind, storm, calls]
RECURSIVE patchFrom(_, _, _, _, _, _, _)
patchFrom(arcs, i, st, cs, pname, prefix, flags) ==
    IF i > Len(arcs) THEN [kind |-> "ok", storm |-> st, calls |-> cs]
    ELSE LET mpq == arcs[i]
             cs1 == Append(cs, Call("SFileOpenPatchArchive", mpq,
                                    Args(<<>>, pname, prefix, flags)))
         IN IF ~Valid(st, mpq)
            THEN [kind |-> "StormError", storm |-> st, calls |-> cs1]
            ELSE patchFrom(arcs, i + 1,
                     [st EXCEPT ![mpq].patches =
                         @ \cup {[path |-> pname, prefix |-> prefix,
                                   flags |-> flags]}],
                     cs1, pname, prefix, flags)

\* A mutant of patch: only the first archive of the set is patched.
patch_first_only(pname, prefix, flags) ==
    patchFrom(IF _archives = <<>> THEN <<>> ELSE <<Head(_archives)>>,
              1, storm, <<>>, pname, prefix, flags)

patch(pname, prefix, flags) ==
    patchFrom(_archives, 1, storm, <<>>, pname, prefix, flags)

\* MPQFile.close.  Closing a handle the codec no longer recognises fails.
RECURSIVE closeFrom(_, _, _)
closeFrom(i, st, cs) ==
    IF i > Len(_archives) THEN [kind |-> "ok", storm |-> st, calls |-> cs]
    ELSE LET mpq == _archives[i]
             cs1 == Append(cs, Call("SFileCloseArchive", mpq, NoArgs))
         IN IF ~Valid(st, mpq)
            THEN [kind |-> "StormError", storm |-> st, calls |-> cs1]
            ELSE closeFrom(i + 1, [st EXCEPT ![mpq].state = "closed"], cs1)

close == closeFrom(1, storm, <<>>)

\* MPQFile.flush
RECURSIVE flushFrom(_, _)
flushFrom(i, cs) ==
    IF i > Len(_archives) THEN [kind |-> "ok", calls |-> cs]
    ELSE LET mpq == _archives[i]
             cs1 == Append(cs, Call("SFileFlushArchive", mpq, NoArgs))
         IN IF ~Valid(storm, mpq) THEN [kind |-> "StormError", calls |-> cs1]
            ELSE flushFrom(i + 1, cs1)

\* A mutant of flush: only the first archive is flushed.
flush_first_only ==
    IF _archives = <<>> THEN [kind |-> "ok", calls |-> <<>>]
    ELSE IF ~Valid(storm, _archives[1])
         THEN [kind |-> "StormError",
               calls |-> <<Call("SFileFlushArchive", _archives[1], NoArgs)>>]
         ELSE [kind |-> "ok",
               calls |-> <<Call("SFileFlushArchive", _archives[1], NoArgs)>>]

flush == flushFrom(1, <<>>)

\* ----------------------------------------------- the methods of MPQExtFile
\* A call into the codec on the file f; num is the size or the offset.
FileCall(fn, f, num) == Call(fn, f._file.mpq, Args(f.name, "", "", num))

\* What a method of MPQExtFile did to the file f.
FileDid(kind, f, bytes, num, cs) ==
    [kind |-> kind, file |-> f, bytes |-> bytes, num |-> num, calls |-> cs]

\* MPQExtFile.size()
ext_size(f) ==
    LET cs == <<FileCall("SFileGetFileSize", f, 0)>>
    IN IF FileValid(f._file)
       THEN FileDid("ok", f, <<>>, SFileGetFileSize(f._file), cs)
       ELSE FileDid("StormError", f, <<>>, 0, cs)

\* MPQExtFile.tell()
ext_tell(f) ==
    LET cs == <<FileCall("SFileSetFilePointer", f, 0)>>
        r  == SFileSetFilePointer(f._file, 0, SEEK_CUR)
    IN IF r.kind = "ok" THEN FileDid("ok", f, <<>>, r.val, cs)
       ELSE FileDid(r.kind, f, <<>>, 0, cs)

\* MPQExtFile.seek(offset, whence)
ext_seek(f, offset, whence) ==
    LET cs == <<FileCall("SFileSetFilePointer", f, offset)>>
        r  == SFileSetFilePointer(f._file, offset, whence)
    IN IF r.kind = "ok"
       THEN FileDid("ok", [f EXCEPT !._file.pos = r.val], <<>>, 0, cs)
       ELSE FileDid(r.kind, f, <<>>, 0, cs)

\* MPQExtFile.read(size): size() and tell() when size is None, then the
\* codec reads from the position and moves it past what it read.
ext_read(f, size) ==
    LET pre == IF size = None THEN ext_size(f).calls \o ext_tell(f).calls
               ELSE <<>>
    IN IF ~FileValid(f._file)
       THEN FileDid("StormError", f, <<>>, 0,
                    IF size = None THEN ext_size(f).calls
                    ELSE <<FileCall("SFileReadFile", f, size)>>)
       ELSE LET sz == readSize(f, size)
                bs == SFileReadFile(f._file, sz)
            IN FileDid("ok", [f EXCEPT !._file.pos = @ + Len(bs)], bs, 0,
                       Append(pre, FileCall("SFileReadFile", f, sz)))

\* MPQExtFile.close(): the codec closes the stream, whatever its state.
ext_close(f) ==
    LET cs == <<FileCall("SFileCloseFile", f, 0)>>
    IN IF FileValid(f._file)
       THEN FileDid("ok", [f EXCEPT !._file.state = "closed"], <<>>, 0, cs)
       ELSE FileDid("StormError", f, <<>>, 0, cs)

\* ------------------------------------------- MPQInfo and what returns it
\* MPQInfo(file)
MPQInfo(file) == [_file |-> file]

\* What an MPQInfo object has: the attribute of __init__ and the properties.
MPQInfoAttrs ==
    {"_file", "basename", "filename", "date_time", "compress_type", "CRC",
     "compress_size", "file_size"}

\* MPQInfo.filename
filename(info) == replace(info._file.name, "\\", "/")

\* MPQFile.getinfo(f) for a name f: [kind, val (the file of the view), calls]
getinfo(f) == open(replace(f, "/", "\\"), FALSE)

\* [self.getinfo(x) for x in names], from the i-th name on: the views'
\* files and filenames.
RECURSIVE infoFrom(_, _, _, _, _)
infoFrom(names, i, files, acc, cs) ==
    IF i > Len(names)
    THEN [kind |-> "ok", files |-> files, val |-> acc, calls |-> cs]
    ELSE LET g == getinfo(names[i])
         IN IF g.kind # "ok"
            THEN [kind |-> g.kind, files |-> <<>>, val |-> <<>>,
                  calls |-> cs \o g.calls]
            ELSE infoFrom(names, i + 1, Append(files, g.val),
                          Append(acc, filename(MPQInfo(g.val))),
                          cs \o g.calls)

\* MPQFile.infolist: [kind, val (the filenames of the views, in order),
\* files (their files), listfile, calls, regen]
infolist ==
    LET nl == namelist
    IN IF nl.kind # "ok"
       THEN [kind |-> nl.kind, val |-> <<>>, files |-> <<>>,
             listfile |-> nl.listfile, calls |-> nl.calls, regen |-> nl.regen]
       ELSE LET r == infoFrom(nl.val, 1, <<>>, <<>>, nl.calls)
            IN [kind |-> r.kind, val |-> r.val, files |-> r.files,
                listfile |-> nl.listfile, calls |-> r.calls, regen |-> nl.regen]

\* MPQFile.read(name) for a name: open, then read() of the whole file; the
\* file is not closed.
read(n) ==
    LET o == open(n, FALSE)
    IN IF o.kind # "ok"
       THEN [kind |-> o.kind, val |-> <<>>, calls |-> o.calls]
       ELSE LET r == ext_read(o.val, None)
            IN [kind |-> r.kind, val |-> r.bytes, calls |-> o.calls \o r.calls]

\* MPQFile.read(info) for an MPQInfo: line 147 takes info.name first.
read_info(info) ==
    IF "name" \notin MPQInfoAttrs
    THEN [kind |-> "AttributeError", val |-> <<>>, calls |-> <<>>]
    ELSE read(info._file.name)

\* ----------------------------------------------------------- the actions
\* What a call did: the method, "ok" or the exception raised, the arguments
\* (arg, and patched for open and extract), the value returned (bool, list,
\* file, bytes or num, by its type) and for namelist whether it rebuilt the
\* index.  After a call on a file, file is that file as the call left it.
Result(op, kind, arg, patched) ==
    [op |-> op, kind |-> kind, arg |-> arg, patched |-> patched,
     regen |-> FALSE, bool |-> FALSE, list |-> <<>>, file |-> NoFile,
     bytes |-> <<>>, num |-> 0]

\* The last two values of s.
LastTwo(s) == IF Len(s) <= 2 THEN s ELSE SubSeq(s, Len(s) - 1, Len(s))

\* MPQFile.add_archive(p, flags) with cache as the new self._listfile: the
\* codec opens p as handle h, or fails and nothing is assigned.
AddArchiveAs(p, flags, cache) ==
    IF p \in GoodPaths
    THEN /\ Len(_archives) < MaxArchives
         /\ \E h \in Handles :
              /\ storm[h].state = "free"
              /\ storm' = [storm EXCEPT ![h] =
                              [path |-> p, state |-> "open", patches |-> {}]]
              /\ _archives' = Append(_archives, h)
              /\ calls' = <<Call("SFileOpenArchive", h, Args(<<>>, p, "", flags))>>
         /\ name' = p
         /\ heap' = heap
         /\ _listfile' = cache
         /\ hasListfile' = TRUE
         /\ result' = Result("add_archive", "ok", Args(<<>>, p, "", flags), FALSE)
         /\ nlSeen' = <<>>
    ELSE /\ result' = Result("add_archive", "StormError",
                            Args(<<>>, p, "", flags), FALSE)
         /\ calls' = <<Call("SFileOpenArchive", None, Args(<<>>, p, "", flags))>>
         /\ UNCHANGED <<_archives, _listfile, hasListfile, name, storm, heap, nlSeen>>

\* A mutant of add_archive: line 50 is missing, the cache survives the add.
add_archive_keeps_cache(p, flags) == AddArchiveAs(p, flags, _listfile)

\* A mutant of add_archive: the cache is reset before the codec is asked,
\* so a failed add loses it.
add_archive_resets_first(p, flags) ==
    IF p \in GoodPaths
    THEN AddArchiveAs(p, flags, <<>>)
    ELSE /\ result' = Result("add_archive", "StormError",
                            Args(<<>>, p, "", flags), FALSE)
         /\ calls' = <<Call("SFileOpenArchive", None, Args(<<>>, p, "", flags))>>
         /\ _listfile' = <<>>
         /\ hasListfile' = TRUE
         /\ UNCHANGED <<_archives, name, storm, heap, nlSeen>>

add_archive(p, flags) == AddArchiveAs(p, flags, <<>>)

Contains(n) ==
    LET r == __contains__(n)
    IN /\ result' = [Result("__contains__", r.kind, Args(n, "", "", 0), FALSE)
                        EXCEPT !.bool = r.val]
       /\ calls' = r.calls
       /\ UNCHANGED <<_archives, _listfile, hasListfile, name, storm, heap, nlSeen>>

Namelist ==
    LET r == namelist
    IN /\ _listfile' = r.listfile
       /\ result' = [Result("namelist", r.kind, NoArgs, FALSE)
                        EXCEPT !.regen = r.regen, !.list = r.val]
       /\ calls' = r.calls
       /\ nlSeen' = IF r.kind = "ok" THEN LastTwo(Append(nlSeen, r.val)) ELSE nlSeen
       /\ UNCHANGED <<_archives, hasListfile, name, storm, heap>>

Open(n, patched) ==
    LET r == open(n, patched)
    IN /\ result' = [Result("open", r.kind, Args(n, "", "", 0), patched)
                        EXCEPT !.file = r.val]
       /\ calls' = r.calls
       /\ UNCHANGED <<_archives, _listfile, hasListfile, name, storm, heap, nlSeen>>

OpenIndex(i, patched) ==
    LET r == open_index(i, patched)
    IN /\ result' = [Result("open_index", r.kind, Args(<<>>, "", "", i), patched)
                        EXCEPT !.file = r.val]
       /\ calls' = r.calls
       /\ UNCHANGED <<_archives, _listfile, hasListfile, name, storm, heap, nlSeen>>

GetInfo(n) ==
    LET r == getinfo(n)
    IN /\ result' = [Result("getinfo", r.kind, Args(n, "", "", 0), FALSE)
                        EXCEPT !.file = r.val]
       /\ calls' = r.calls
       /\ UNCHANGED <<_archives, _listfile, hasListfile, name, storm, heap, nlSeen>>

Infolist ==
    \E r \in {infolist}, nl \in {namelist} :
       /\ _listfile' = r.listfile
       /\ result' = [Result("infolist", r.kind, NoArgs, FALSE)
                        EXCEPT !.regen = r.regen, !.list = r.val]
       /\ calls' = r.calls
       /\ nlSeen' = IF nl.kind = "ok"
                    THEN LastTwo(Append(nlSeen, nl.val)) ELSE nlSeen
       /\ UNCHANGED <<_archives, hasListfile, name, storm, heap>>

Read(n) ==
    LET r == read(n)
    IN /\ result' = [Result("read", r.kind, Args(n, "", "", 0), FALSE)
                        EXCEPT !.bytes = r.val]
       /\ calls' = r.calls
       /\ UNCHANGED <<_archives, _listfile, hasListfile, name, storm, heap, nlSeen>>

\* read(V) with the view V that the getinfo just before returned.
ReadInfo ==
    /\ result.op = "getinfo" /\ result.kind = "ok"
    /\ LET r == read_info(MPQInfo(result.file))
       IN /\ result' = [Result("read_info", r.kind,
                                Args(result.file.name, "", "", 0), FALSE)
                           EXCEPT !.bytes = r.val]
          /\ calls' = r.calls
    /\ UNCHANGED <<_archives, _listfile, hasListfile, name, storm, heap, nlSeen>>

Extract(member, path, patched) ==
    LET r == extract(member, path, patched)
    IN /\ result' = Result("extract", r.kind, Args(member, path, "", 0), patched)
       /\ calls' = r.calls
       /\ UNCHANGED <<_archives, _listfile, hasListfile, name, storm, heap, nlSeen>>

IsPatched ==
    LET r == is_patched
    IN /\ result' = [Result("is_patched", r.kind, NoArgs, FALSE)
                        EXCEPT !.bool = r.val]
       /\ calls' = r.calls
       /\ UNCHANGED <<_archives, _listfile, hasListfile, name, storm, heap, nlSeen>>

Patch(pname, prefix, flags) ==
    LET r == patch(pname, prefix, flags)
    IN /\ storm' = r.storm
       /\ result' = Result("patch", r.kind, Args(<<>>, pname, prefix, flags), FALSE)
       /\ calls' = r.calls
       /\ UNCHANGED <<_archives, _listfile, hasListfile, name, heap, nlSeen>>

Close ==
    LET r == close
    IN /\ storm' = r.storm
       /\ result' = Result("close", r.kind, NoArgs, FALSE)
       /\ calls' = r.calls
       /\ UNCHANGED <<_archives, _listfile, hasListfile, name, heap, nlSeen>>

Flush ==
    LET r == flush
    IN /\ result' = Result("flush", r.kind, NoArgs, FALSE)
       /\ calls' = r.calls
       /\ UNCHANGED <<_archives, _listfile, hasListfile, name, storm, heap, nlSeen>>

\* MPQFile.__init__(name=None) leaves self._archives empty and assigns no
\* self._listfile; MPQFile.__init__(p) goes on to add_archive(p, 0).
InitEmpty ==
    /\ _archives = <<>>
    /\ _listfile = <<>>
    /\ hasListfile = FALSE
    /\ name = "None"
    /\ storm = [h \in Handles |-> FreeHandle]
    /\ heap \in {"intact", "invalid"}
    /\ result = Result("__init__", "ok", NoArgs, FALSE)
    /\ calls = <<>>
    /\ nlSeen = <<>>

\* The set MPQFile.__init__(p) leaves when the codec opened p as handle h.
NamedAs(p, h) ==
    /\ _archives = <<h>>
    /\ _listfile = <<>>
    /\ hasListfile = TRUE
    /\ name = p
    /\ storm = [x \in Handles |->
                  IF x = h THEN [path |-> p, state |-> "open", patches |-> {}]
                  ELSE FreeHandle]
    /\ heap \in {"intact", "invalid"}
    /\ nlSeen = <<>>

InitNamed ==
    \E p \in GoodPaths, h \in Handles :
        /\ NamedAs(p, h)
        /\ result = Result("__init__", "ok", Args(<<>>, p, "", 0), FALSE)
        /\ calls = <<Call("SFileOpenArchive", h, Args(<<>>, p, "", 0))>>

Init == InitEmpty \/ InitNamed

Next ==
    \/ \E p \in Paths, fl \in Flags : add_archive(p, fl)
    \/ \E n \in Names : Contains(n)
    \/ Namelist
    \/ \E n \in Names, patched \in BOOLEAN : Open(n, patched)
    \/ Infolist
    \/ \E n \in Names, patched \in BOOLEAN : Extract(n, ".", patched)
    \/ IsPatched
    \/ \E pn \in PatchPaths, pf \in Prefixes, fl \in Flags : Patch(pn, pf, fl)
    \/ Close
    \/ Flush

Spec == Init /\ [][Next]_vars

\* The calls that fetch a member by index, as a view or as its bytes, on
\* the sets that add_archive, namelist and close leave.
ReadNext ==
    \/ \E p \in Paths, fl \in Flags : add_archive(p, fl)
    \/ Namelist
    \/ Close
    \/ \E i \in Indexes, patched \in BOOLEAN : OpenIndex(i, patched)
    \/ \E n \in Names : GetInfo(n)
    \/ \E n \in Names : Read(n)
    \/ ReadInfo

ReadSpec == Init /\ [][ReadNext]_vars

\* ----------------------------------------------- the calls on an open file
\* The caller applies a method to the file it holds.
OnFile(op, r, num) ==
    /\ result' = [Result(op, r.kind, Args(r.file.name, "", "", num), FALSE)
                     EXCEPT !.file = r.file, !.bytes = r.bytes, !.num = r.num]
    /\ calls' = r.calls
    /\ UNCHANGED <<_archives, _listfile, hasListfile, name, storm, heap, nlSeen>>

FileRead(size) == OnFile("file.read", ext_read(result.file, size), size)

FileSeek(offset, whence) ==
    OnFile("file.seek", ext_seek(result.file, offset, whence), offset)

FileTell == OnFile("file.tell", ext_tell(result.file), 0)

FileSize == OnFile("file.size", ext_size(result.file), 0)

FileClose == OnFile("file.close", ext_close(result.file), 0)

\* A set built over one archive, and the file a successful open(n) returned.
FileInit ==
    \E p \in GoodPaths, h \in Handles, n \in Names \cup {LISTFILE} :
        /\ NamedAs(p, h)
        /\ open(n, FALSE).kind = "ok"
        /\ result = [Result("open", "ok", Args(n, "", "", 0), FALSE)
                        EXCEPT !.file = open(n, FALSE).val]
        /\ calls = open(n, FALSE).calls

FileNext ==
    \/ \E size \in {None} \cup (0..MaxRead) : FileRead(size)
    \/ \E offset \in (-MaxRead)..MaxRead,
          whence \in {SEEK_SET, SEEK_CUR, SEEK_END} : FileSeek(offset, whence)
    \/ FileTell
    \/ FileSize
    \/ FileClose

FileSpec == FileInit /\ [][FileNext]_vars
\* ------------------------------------------------------- what is claimed
\* The names the claims quantify over: the callers' names and the listing
\* file's.
AllNames == Names \cup {LISTFILE}

\* The positions of the archives whose membership test for n succeeds.
Holders(n) ==
    {i \in 1..Len(_archives) :
        LET r == SFileHasFile(storm, _archives[i], n)
        IN r.kind = "ok" /\ r.val}

Lowest(S) == CHOOSE i \in S : \A j \in S : i <= j

\* C1: whenever resolve(N) returns, it returns the archive at the lowest
\* insertion position among those whose membership test for N succeeds (None
\* when there is none), and a File Handle open(N) returns is bound to that
\* archive: a later archive holding N is never chosen.
C1_FirstWins ==
    /\ \A n \in AllNames :
          LET r == _archive_contains(n)
          IN r.kind = "ok" =>
                IF Holders(n) = {} THEN r.val = None
                ELSE r.val = _archives[Lowest(Holders(n))]
    /\ (result.op = "open" /\ result.kind = "ok") =>
          /\ Holders(result.arg.name) # {}
          /\ result.file._file.mpq = _archives[Lowest(Holders(result.arg.name))]
          /\ result.file._file.name = result.arg.name

\* C1's case: two archives hold the name, the one added first has the
\* greater handle, and open returned a handle bound to the first.
C1_Witness ==
    /\ result.op = "open" /\ result.kind = "ok"
    /\ Len(_archives) = 2
    /\ Holders(result.arg.name) = {1, 2}
    /\ _archives[1] > _archives[2]
    /\ result.file._file.mpq = _archives[1]

\* C2: contains(N) is true exactly when resolve(N) returns an archive
\* handle, for every name and in every state of the archive set.
C2_ContainsIffResolves ==
    \A n \in AllNames :
        LET c == __contains__(n)
            r == _archive_contains(n)
        IN (c.kind = "ok" /\ c.val) <=> (r.kind = "ok" /\ r.val # None)

\* C2's case: after a close, a name only the second archive holds is
\* contained and resolves to that archive.
C2_Witness ==
    /\ Len(_archives) = 2
    /\ IsClosed(storm, _archives[1])
    /\ Holders(NameV) = {2}
    /\ __contains__(NameV).val
    /\ _archive_contains(NameV).val = _archives[2]
    /\ ~__contains__(NameUX).val
    /\ storm[_archives[1]].patches # {}

\* Whether the codec calls cs include one of the functions fns.
Called(cs, fns) == \E i \in 1..Len(cs) : cs[i].fn \in fns

\* C3: for a name no archive contains, open and extract both fail with
\* KeyError, and neither reaches the codec's openMember or extractFile.
C3_MissingIsLookup ==
    (/\ result.op \in {"open", "extract"}
     /\ __contains__(result.arg.name).kind = "ok"
     /\ ~__contains__(result.arg.name).val)
    => /\ result.kind = "KeyError"
       /\ ~Called(calls, {"SFileOpenFileEx", "SFileExtractFile"})
\* The entries of a listing file's bytes, read left to right: an entry ends
\* at each CR LF pair and at the end, an empty entry is no entry, and a
\* backslash stands as a forward slash.
RECURSIVE Lines(_, _)
Lines(raw, cur) ==
    LET done == IF cur = <<>> THEN <<>> ELSE <<cur>>
    IN IF raw = <<>> THEN done
       ELSE IF Len(raw) >= 2 /\ raw[1] = "\r" /\ raw[2] = "\n"
       THEN done \o Lines(SubSeq(raw, 3, Len(raw)), <<>>)
       ELSE Lines(Tail(raw), Append(cur, IF Head(raw) = "\\" THEN "/" ELSE Head(raw)))

\* The listing entries of the archive opened as handle h, from its own
\* listing file.
ListingEntries(st, h) == Lines(Disk[st[h].path].listing, <<>>)

\* The concatenation of the archives' listing entries, in insertion order.
RECURSIVE FullIndex(_, _)
FullIndex(st, arcs) ==
    IF arcs = <<>> THEN <<>>
    ELSE ListingEntries(st, Head(arcs)) \o FullIndex(st, Tail(arcs))

\* Whether s ends with t.
EndsWith(s, t) ==
    Len(t) <= Len(s) /\ SubSeq(s, Len(s) - Len(t) + 1, Len(s)) = t

\* C4: a successful add_archive leaves the cached index empty, whatever it
\* held before, and the next namelist() rebuilds it from every archive now
\* in the set, so that it ends with the added archive's listing entries.
C4_AddInvalidatesCache ==
    /\ []((result.op = "add_archive" /\ result.kind = "ok")
            => (hasListfile /\ _listfile = <<>>))
    /\ [][(/\ result.op = "add_archive" /\ result.kind = "ok"
           /\ result'.op = "namelist" /\ result'.kind = "ok")
          => /\ result'.regen
             /\ result'.list = FullIndex(storm', _archives')
             /\ EndsWith(result'.list,
                         ListingEntries(storm', _archives'[Len(_archives')]))]_vars

\* C4's case: the first namelist() since a second archive was added returned
\* a rebuilt index that holds both archives' entries.
C4_Witness ==
    /\ result.op = "namelist" /\ result.kind = "ok" /\ result.regen
    /\ Len(_archives) = 2
    /\ Len(nlSeen) = 1
    /\ ListingEntries(storm, _archives[1]) # <<>>
    /\ ListingEntries(storm, _archives[2]) # <<>>
    /\ result.list =
          ListingEntries(storm, _archives[1]) \o ListingEntries(storm, _archives[2])

\* C5: two namelist() calls with no add_archive between them return the
\* same sequence.
C5_CacheStable == Len(nlSeen) = 2 => nlSeen[1] = nlSeen[2]

\* C5's case: namelist() returned a second time since the last add_archive,
\* from the cache, an index of three names.
C5_Witness ==
    /\ result.op = "namelist" /\ result.kind = "ok" /\ ~result.regen
    /\ Len(nlSeen) = 2
    /\ Len(nlSeen[2]) = 3

\* The codec calls of a rebuild over the archives arcs: each archive's own
\* listing file is opened, unpatched, in insertion order.
ListfileOpens(arcs) ==
    [i \in 1..Len(arcs) |-> Call("SFileOpenFileEx", arcs[i], Args(LISTFILE, "", "", 0))]

\* C6: when the cache is empty, a namelist() that returns returns the
\* concatenation, in insertion order, of each archive's own listing entries
\* (split at CR LF, empty entries dropped, backslashes turned to slashes),
\* having opened each archive's own listing file; a name several archives
\* list appears once for each.
C6_RebuildConcatenates ==
    [][(/\ hasListfile /\ _listfile = <<>>
        /\ result'.op = "namelist" /\ result'.kind = "ok")
       => /\ result'.list = FullIndex(storm, _archives)
          /\ calls' = ListfileOpens(_archives)
          /\ _listfile' = result'.list]_vars

\* C6's case: over base.mpq and patch.mpq a rebuild returned u/x twice and
\* v, the blank line of patch.mpq's listing dropped.
C6_Witness ==
    /\ result.op = "namelist" /\ result.kind = "ok" /\ result.regen
    /\ Len(_archives) = 2
    /\ storm[_archives[1]].path = "base.mpq"
    /\ storm[_archives[2]].path = "patch.mpq"
    /\ result.list = << <<"u", "/", "x">>, <<"u", "/", "x">>, <<"v">> >>

\* Whether the archive set holds a handle that close() has closed.
HoldsClosed == \E i \in 1..Len(_archives) : IsClosed(storm, _archives[i])

\* The calls that use the archives of the set.
ArchiveOps ==
    {"__contains__", "open", "extract", "namelist", "patch", "is_patched",
     "flush", "close"}

\* C7: once the archive set is closed, every later call that uses its
\* archives is rejected with a STATE error and hands no closed archive
\* handle to the codec.
C7_ClosedRejects ==
    [][(HoldsClosed /\ result'.op \in ArchiveOps)
       => /\ result'.kind = "StateError"
          /\ \A i \in 1..Len(calls') : ~IsClosed(storm, calls'[i].mpq)]_vars

\* C8: namelist() never returns an index when some archive's listing file
\* cannot be read: the rebuild fails there, and the entries of the archives
\* before it are not returned then or later.
C8_NoPartialIndex ==
    (result.op = "namelist" /\ result.kind = "ok")
    => \A i \in 1..Len(_archives) : Disk[storm[_archives[i]].path].hasList

\* Whether some archive of the set has a patch layered on it.
AnyPatched == \E i \in 1..Len(_archives) : storm[_archives[i]].patches # {}

\* C9: is_patched() fails with no error other than a codec error, and
\* returns true exactly when some archive of the set has a patch layered on
\* it.
C9_IsPatched ==
    result.op = "is_patched"
    => /\ result.kind \in {"ok", "StormError"}
       /\ result.kind = "ok" => (result.bool <=> AnyPatched)

\* The codec calls of patch(args) over the archives arcs.
PatchCalls(arcs, args) ==
    [i \in 1..Len(arcs) |-> Call("SFileOpenPatchArchive", arcs[i], args)]

\* Whether s is an initial part of t.
IsPrefix(s, t) == Len(s) <= Len(t) /\ SubSeq(t, 1, Len(s)) = s

\* C10: patch(path, prefix, flags) hands each archive of the set, in
\* insertion order and once, to the codec's openPatchArchive with that path,
\* prefix and flags, stopping only at a handle the codec rejects, which only
\* a closed archive can be; it leaves the archive list as it is, and an
\* archive added later starts with no patch.
C10_PatchBroadcast ==
    /\ [][result'.op = "patch"
          => /\ _archives' = _archives
             /\ IsPrefix(calls', PatchCalls(_archives, result'.arg))
             /\ result'.kind = "ok" =>
                   /\ calls' = PatchCalls(_archives, result'.arg)
                   /\ \A i \in 1..Len(_archives) :
                         storm'[_archives[i]].patches # {}
             /\ ~HoldsClosed => result'.kind = "ok"]_vars
    /\ []((result.op = "add_archive" /\ result.kind = "ok")
            => storm[_archives[Len(_archives)]].patches = {})

\* C10's case: a patch over two archives reached both, in order.
C10_Witness ==
    /\ result.op = "patch" /\ result.kind = "ok"
    /\ Len(_archives) = 2
    /\ Len(calls) = 2
    /\ calls[1].mpq = _archives[1] /\ calls[2].mpq = _archives[2]
    /\ calls[1].args = Args(<<>>, "expansion.mpq", "fix", 0)

\* C11: a read() without a size, at any position p of a file of S bytes,
\* asks the codec for exactly S - p bytes, returns the bytes from p to the
\* end and leaves the file at S, so that reads without a size return S
\* bytes in total; tell() answers the position and does not move it.
C11_ReadRoundTrip ==
    [][LET f == result.file._file
           S == Len(f.data)
           p == f.pos
       IN /\ (result'.op = "file.read" /\ result'.arg.num = None
                  /\ result'.kind = "ok")
             => /\ 0 <= p /\ p <= S
                /\ calls'[Len(calls')] =
                       FileCall("SFileReadFile", result.file, S - p)
                /\ result'.bytes = SubSeq(f.data, p + 1, S)
                /\ result'.file._file.pos = S
          /\ (result'.op = "file.tell" /\ result'.kind = "ok")
             => /\ result'.num = p
                /\ result'.file = result.file]_vars

\* A read() without a size from the middle of a file returned the rest.
C11_Witness ==
    /\ result.op = "file.read" /\ result.arg.num = None /\ result.kind = "ok"
    /\ Len(result.bytes) > 0
    /\ Len(result.bytes) < Len(result.file._file.data)
    /\ result.file._file.pos = Len(result.file._file.data)

\* The methods of a file that use its stream.
StreamOps == {"file.read", "file.seek", "file.tell", "file.size"}

\* C18: close() of a file is idempotent, the codec stream is released at
\* most once; read, seek, tell and size on a closed file are rejected with
\* a STATE error and nothing is forwarded to the codec.
C18_ClosedFileRejects ==
    [][result.file._file.state = "closed"
       => /\ result'.op \in StreamOps
             => result'.kind = "StateError" /\ calls' = <<>>
          /\ result'.op = "file.close"
             => result'.kind = "ok" /\ calls' = <<>>]_vars

\* C20: an add_archive that fails changes nothing: the codec's error is
\* what the caller gets, no handle is appended to the archive list and the
\* cache is not reset.
C20_FailedAddChangesNothing ==
    [][(result'.op = "add_archive" /\ result'.kind # "ok")
       => /\ result'.kind = "StormError"
          /\ _archives' = _archives
          /\ _listfile' = _listfile
          /\ hasListfile' = hasListfile
          /\ name' = name
          /\ storm' = storm]_vars

\* An add_archive failed on a set that holds an archive and a filled cache.
C20_Witness ==
    /\ result.op = "add_archive" /\ result.kind = "StormError"
    /\ _archives # <<>>
    /\ _listfile # <<>>

\* One flushArchive per archive of arcs, in order.
FlushCalls(arcs) ==
    [i \in 1..Len(arcs) |-> Call("SFileFlushArchive", arcs[i], NoArgs)]

\* C15: flush() calls the codec's flushArchive once per archive in
\* insertion order and nothing else, closes no archive, and leaves the
\* archive list, the cache and the codec's archives as they were, so that
\* flush after flush leaves the same state.  A flush that the codec
\* refuses on a closed archive stops there, having changed nothing.
C15_FlushNonDestructive ==
    [][result'.op = "flush"
       => /\ _archives' = _archives
          /\ _listfile' = _listfile
          /\ hasListfile' = hasListfile
          /\ name' = name
          /\ storm' = storm
          /\ IsPrefix(calls', FlushCalls(_archives))
          /\ result'.kind = "ok" => calls' = FlushCalls(_archives)
          /\ ~HoldsClosed => result'.kind = "ok"
          /\ (result.op = "flush" /\ result.kind = "ok")
             => result' = result /\ calls' = calls]_vars

\* A flush returned on a set of two archives with a filled cache.
C15_Witness ==
    /\ result.op = "flush" /\ result.kind = "ok"
    /\ Len(_archives) = 2
    /\ Len(calls) = 2
    /\ _listfile # <<>>

\* C16: a set created with no archive is usable before any add_archive:
\* namelist() returns the empty list, no name is contained, and open fails
\* with the lookup error; none of them fails in another way.
C16_EmptySetUsable ==
    (_archives = <<>> /\ ~hasListfile)
    => /\ result.op = "namelist" => result.kind = "ok" /\ result.list = <<>>
       /\ result.op = "__contains__" => result.kind = "ok" /\ ~result.bool
       /\ result.op = "open" => result.kind = "KeyError"

\* C17: open(N) raises the lookup error only when no archive of the set
\* contains N; when one does, open returns a file bound to the first such
\* archive, whatever the value of its handle, 0 included.
C17_LookupOnlyWhenAbsent ==
    (result.op = "open" /\ Holders(result.arg.name) # {})
    => /\ result.kind # "KeyError"
       /\ result.kind = "ok"
          => result.file._file.mpq = _archives[Lowest(Holders(result.arg.name))]

\* C13: open(i) for an integer i resolves the name "File%08x.xxx" % i
\* (open(3) resolves File00000003.xxx): it returns a file of that name
\* from the first archive that holds it, and raises the lookup error when
\* no archive does.
C13_OpenByIndex ==
    result.op = "open_index"
    => LET n == IndexName(result.arg.num)
       IN /\ result.kind # "ok" => result.kind = "KeyError"
          /\ result.kind = "KeyError" => Holders(n) = {}
          /\ result.kind = "ok"
             => /\ result.file.name = n
                /\ result.file._file.mpq = _archives[Lowest(Holders(n))]

\* C12: read(V), for a view V that getinfo returned for the member N,
\* succeeds and returns the bytes that read(N) returns.
C12_ReadAcceptsView ==
    result.op = "read_info"
    => /\ result.kind = "ok"
       /\ read(result.arg.name).kind = "ok"
       /\ result.bytes = read(result.arg.name).val

\* Whether the codec call c opens a member other than the listing file.
IsMemberOpen(c) == c.fn = "SFileOpenFileEx" /\ c.args.name # LISTFILE

\* C14: whenever namelist() returns, infolist() returns one view per name
\* of namelist(), in the same order, the i-th with the i-th name as its
\* filename, each obtained by one unpatched open of that name.
C14_InfolistMatchesNamelist ==
    (result.op = "infolist" /\ namelist.kind = "ok")
    => /\ result.kind = "ok"
       /\ result.list = namelist.val
       /\ LET opens == SelectSeq(calls, IsMemberOpen)
          IN /\ Len(opens) = Len(result.list)
             /\ \A k \in 1..Len(opens) :
                   /\ replace(opens[k].args.name, "\\", "/") = result.list[k]
                   /\ opens[k].args.num = 0

\* Whether the codec call c opens a file, and whether it closes one.
IsFileOpen(c) == c.fn = "SFileOpenFileEx"
IsFileClose(c) == c.fn = "SFileCloseFile"

\* C19: the files the set opens for its own use, the listing files of a
\* namelist() rebuild and the file of read(name), are closed when the
\* call returns: it closed as many files as it opened.
C19_NoInternalLeak ==
    (result.op \in {"namelist", "read"} /\ result.kind = "ok")
    => Len(SelectSeq(calls, IsFileOpen)) = Len(SelectSeq(calls, IsFileClose))
====
